---- MODULE Spec2Model ----
(***************************************************************************)
(* Montgomery arithmetic for the field p = 2^128 - 2^108 + 1, as computed  *)
(* by the Python reference scripts of rust-longfellow-zk.                  *)
(*                                                                         *)
(* Python integers are unbounded.  They are represented here as sequences  *)
(* of base-256 digits, least significant first, without leading zero       *)
(* digits (zero is the empty sequence), so that a 64-bit limb is exactly   *)
(* eight digits and `& ((1 << 64) - 1)`, `>> 64` and `<< 64` are digit     *)
(* operations.                                                             *)
(***************************************************************************)
EXTENDS Integers, Naturals, Sequences, FiniteSets, TLC

VARIABLES call

vars == <<call>>

-----------------------------------------------------------------------------
(* Python int arithmetic on non-negative values *)

Base == 256

LimbDigits == 8

Digit(x, i) == IF i <= Len(x) THEN x[i] ELSE 0

MaxOf(m, n) == IF m >= n THEN m ELSE n

MinOf(m, n) == IF m <= n THEN m ELSE n

RECURSIVE Norm(_)
Norm(s) == IF Len(s) = 0 THEN s
           ELSE IF s[Len(s)] # 0 THEN s
           ELSE Norm(SubSeq(s, 1, Len(s) - 1))

RECURSIVE FromInt(_)
FromInt(n) == IF n = 0 THEN << >> ELSE <<n % Base>> \o FromInt(n \div Base)

Zeros(n) == [i \in 1..n |-> 0]

RECURSIVE CmpFrom(_, _, _)
CmpFrom(x, y, i) == IF i = 0 THEN 0
                    ELSE IF x[i] < y[i] THEN -1
                    ELSE IF x[i] > y[i] THEN 1
                    ELSE CmpFrom(x, y, i - 1)

Cmp(x, y) == IF Len(x) < Len(y) THEN -1
             ELSE IF Len(x) > Len(y) THEN 1
             ELSE CmpFrom(x, y, Len(x))

Lt(x, y) == Cmp(x, y) = -1

Ge(x, y) == Cmp(x, y) # -1

\* the loops below carry their state in one record st, read by the loop test

\* one digit s of a sum or product column stored, its overflow carried on
CarryStep(st, s) ==
    [i |-> st.i + 1, carry |-> s \div Base, acc |-> Append(st.acc, s % Base)]

RECURSIVE AddFrom(_, _, _)
AddFrom(x, y, st) ==
    IF st.i > MaxOf(Len(x), Len(y))
    THEN IF st.carry = 0 THEN st.acc ELSE Append(st.acc, st.carry)
    ELSE AddFrom(x, y, CarryStep(st, Digit(x, st.i) + Digit(y, st.i) + st.carry))

Add(x, y) == AddFrom(x, y, [i |-> 1, carry |-> 0, acc |-> << >>])

\* one digit s of a difference stored, a negative one borrowing from the next
BorrowStep(st, s) ==
    [i |-> st.i + 1, borrow |-> IF s < 0 THEN 1 ELSE 0,
     acc |-> Append(st.acc, IF s < 0 THEN s + Base ELSE s)]

RECURSIVE SubFrom(_, _, _)
SubFrom(x, y, st) ==
    IF st.i > Len(x) THEN st.acc
    ELSE SubFrom(x, y, BorrowStep(st, x[st.i] - Digit(y, st.i) - st.borrow))

\* x - y for x >= y
Sub(x, y) == Norm(SubFrom(x, y, [i |-> 1, borrow |-> 0, acc |-> << >>]))

RECURSIVE ColSum(_, _, _, _, _)
ColSum(x, y, k, i, hi) ==
    IF i > hi THEN 0 ELSE x[i] * y[k + 1 - i] + ColSum(x, y, k, i + 1, hi)

RECURSIVE MulFrom(_, _, _)
MulFrom(x, y, st) ==
    IF st.i > Len(x) + Len(y) - 1 THEN Append(st.acc, st.carry)
    ELSE MulFrom(x, y, CarryStep(st,
             ColSum(x, y, st.i, MaxOf(1, st.i + 1 - Len(y)), MinOf(st.i, Len(x)))
                 + st.carry))

Mul(x, y) == IF Len(x) = 0 \/ Len(y) = 0 THEN << >>
             ELSE Norm(MulFrom(x, y, [i |-> 1, carry |-> 0, acc |-> << >>]))

\* x >> (8 * n)
ShrDigits(x, n) == IF Len(x) <= n THEN << >> ELSE SubSeq(x, n + 1, Len(x))

\* x << (8 * n)
ShlDigits(x, n) == IF Len(x) = 0 THEN x ELSE Zeros(n) \o x

\* x & ((1 << (8 * n)) - 1)
LowDigits(x, n) == IF Len(x) <= n THEN x ELSE Norm(SubSeq(x, 1, n))

\* an estimate, never too large, of rr // d for rr < d * Base, from the top
\* digits of rr and d; exact for a one-digit d
EstimateDigit(rr, d) ==
    IF Len(rr) < Len(d) THEN 0
    ELSE IF Len(d) = 1 THEN (Digit(rr, 2) * Base + rr[1]) \div d[1]
    ELSE (Digit(rr, Len(d) + 1) * Base * Base + rr[Len(d)] * Base + rr[Len(d) - 1])
             \div (d[Len(d)] * Base + d[Len(d) - 1] + 1)

\* while st.r >= d: st.r -= d; st.q += 1
RECURSIVE Correct(_, _)
Correct(d, st) ==
    IF Ge(st.r, d) THEN Correct(d, [q |-> st.q + 1, r |-> Sub(st.r, d)]) ELSE st

\* the estimate q0 taken off rr, then corrected
DivDigitFrom(rr, d, q0) ==
    Correct(d, [q |-> q0, r |-> IF q0 = 0 THEN rr ELSE Sub(rr, Mul(d, <<q0>>))])

\* one quotient digit: (rr // d, rr % d) for rr < d * Base
DivDigit(rr, d) == DivDigitFrom(rr, d, EstimateDigit(rr, d))

\* the quotient digit s.q put in front, the remainder s.r carried on
DivStep(st, s) == [i |-> st.i - 1, r |-> s.r, q |-> <<s.q>> \o st.q]

\* long division, one digit of x per pass, most significant first
RECURSIVE DivFrom(_, _, _)
DivFrom(x, d, st) ==
    IF st.i = 0 THEN [q |-> Norm(st.q), r |-> st.r]
    ELSE DivFrom(x, d, DivStep(st, DivDigit(Norm(<<x[st.i]>> \o st.r), d)))

\* Python's (x // d, x % d) for x >= 0, d > 0; the top Len(d) - 1 digits of x
\* are below d and start the remainder
DivMod(x, d) ==
    IF Lt(x, d) THEN [q |-> << >>, r |-> x]
    ELSE DivFrom(x, d, [i |-> Len(x) - Len(d) + 1,
                        r |-> Norm(SubSeq(x, Len(x) - Len(d) + 2, Len(x))),
                        q |-> << >>])

Mod(x, d) == DivMod(x, d).r

Div(x, d) == DivMod(x, d).q


RECURSIVE BitOrInt(_, _)
BitOrInt(m, n) == IF m = 0 THEN n
                  ELSE IF n = 0 THEN m
                  ELSE MaxOf(m % 2, n % 2) + 2 * BitOrInt(m \div 2, n \div 2)

\* x | y
BitOr(x, y) == Norm([i \in 1..MaxOf(Len(x), Len(y)) |-> BitOrInt(Digit(x, i), Digit(y, i))])

\* 1 << n
Pow2(n) == Zeros(n \div 8) \o <<2 ^ (n % 8)>>

\* x & ((1 << 64) - 1)
Mask64(x) == LowDigits(x, LimbDigits)

\* x >> 64
Shr64(x) == ShrDigits(x, LimbDigits)

\* x << 64
Shl64(x) == ShlDigits(x, LimbDigits)

One == <<1>>

-----------------------------------------------------------------------------
(* The field and its Montgomery constants *)

\* p = (1 << 128) - (1 << 108) + 1
p == Add(Sub(Pow2(128), Pow2(108)), One)

\* r = pow(2, 128, p)
r == Mod(Pow2(128), p)

\* R2 = pow(2, 256, p)
R2 == Mod(Pow2(256), p)

\* INV = 0xFFFFFFFFFFFFFFFF
INV == [i \in 1..LimbDigits |-> 255]

-----------------------------------------------------------------------------
(* correct_montgomery_ref.py: montgomery_mult; fixed_redc.py: fixed_redc *)

\* the four (two) 64-bit limbs of t, least significant first
SplitLimbs(t, n) == [i \in 0..(n - 1) |-> Mask64(ShrDigits(t, LimbDigits * i))]

\* the sum is not shifted before prod_hi is added
AddMulStoreNoShift(st, k, prod_hi, sum_val) ==
    [limbs |-> [st.limbs EXCEPT ![k] = Mask64(sum_val)],
     carry |-> Add(sum_val, prod_hi)]

\* limbs[i + j] = sum_val & mask; carry = (sum_val >> 64) + prod_hi
AddMulStore(st, k, prod_hi, sum_val) ==
    [limbs |-> [st.limbs EXCEPT ![k] = Mask64(sum_val)],
     carry |-> Add(Shr64(sum_val), prod_hi)]

\* prod_lo = prod & mask; prod_hi = prod >> 64;
\* sum_val = limbs[i + j] + prod_lo + carry
AddMulProd(st, k, prod) ==
    AddMulStore(st, k, Shr64(prod), Add(Add(st.limbs[k], Mask64(prod)), st.carry))

\* one pass of the inner loop `for j in range(2)`; st = [limbs, carry]
AddMulStep(st, i, j, m, p_limbs) == AddMulProd(st, i + j, Mul(m, p_limbs[j]))

\* limbs[i + 2] = (limbs[i + 2] + carry) & mask: the carry out of it is dropped
AddCarry(st, k) == [st.limbs EXCEPT ![k] = Mask64(Add(st.limbs[k], st.carry))]

\* the inner loop for the m of this pass, then the carry
MaskedInner(limbs, i, m, p_limbs) ==
    AddCarry(AddMulStep(AddMulStep([limbs |-> limbs, carry |-> << >>],
                                   i, 0, m, p_limbs),
                        i, 1, m, p_limbs),
             i + 2)

\* m taken as limbs[i], not multiplied by inv
MaskedRoundNoInv(limbs, i, p_limbs, inv) == MaskedInner(limbs, i, limbs[i], p_limbs)

\* one pass of the outer loop `for i in range(2)`, with 64-bit masked limbs;
\* m = (limbs[i] * inv) & mask
MaskedRound(limbs, i, p_limbs, inv) ==
    MaskedInner(limbs, i, Mask64(Mul(limbs[i], inv)), p_limbs)

MaskedRounds(limbs, p_limbs, inv) ==
    MaskedRound(MaskedRound(limbs, 0, p_limbs, inv), 1, p_limbs, inv)

MaskedLimbs(t, pp, inv) == MaskedRounds(SplitLimbs(t, 4), SplitLimbs(pp, 2), inv)

\* result = limbs[2] | (limbs[3] << 64)
UpperLimbs(limbs) == BitOr(limbs[2], Shl64(limbs[3]))

\* the conditional subtraction left out
FinalSubSkipped(result, pp) == result

\* if result >= p: result -= p
FinalSub(result, pp) == IF Ge(result, pp) THEN Sub(result, pp) ELSE result

fixed_redc(t, pp, inv) == FinalSub(UpperLimbs(MaskedLimbs(t, pp, inv)), pp)

montgomery_mult(a, b, pp, rr, inv) ==
    FinalSub(UpperLimbs(MaskedLimbs(Mul(a, b), pp, inv)), pp)

-----------------------------------------------------------------------------
(* textbook_redc.py: textbook_redc; radix = 1 << 64, n = 2 *)

\* T_digits[i + j] = sum_val & (radix - 1); carry = sum_val >> 64
TextbookStore(st, k, sum_val) ==
    [T_digits |-> [st.T_digits EXCEPT ![k] = Mask64(sum_val)],
     carry    |-> Shr64(sum_val)]

\* one pass of `for j in range(n)`: the product m * N[j] is added whole
TextbookStep(st, i, j, m, N_digits) ==
    TextbookStore(st, i + j,
                  Add(Add(st.T_digits[i + j], Mul(m, N_digits[j])), st.carry))

\* the carry added to T[k] only, not propagated further
PropagateOnce(st) ==
    IF Len(st.carry) = 0 \/ st.k >= 4 THEN st.T_digits
    ELSE [st.T_digits EXCEPT ![st.k] = Mask64(Add(st.T_digits[st.k], st.carry))]

\* T_digits[k] = sum_val & (radix - 1); carry = sum_val >> 64; k += 1
PropagateStore(st, sum_val) ==
    [T_digits |-> [st.T_digits EXCEPT ![st.k] = Mask64(sum_val)],
     carry    |-> Shr64(sum_val),
     k        |-> st.k + 1]

\* while carry > 0 and k < len(T_digits)
RECURSIVE PropagateCarry(_)
PropagateCarry(st) ==
    IF Len(st.carry) = 0 \/ st.k >= 4 THEN st.T_digits
    ELSE PropagateCarry(PropagateStore(st, Add(st.T_digits[st.k], st.carry)))

\* k = i + n
PropagateFrom(st, k) ==
    PropagateCarry([T_digits |-> st.T_digits, carry |-> st.carry, k |-> k])

\* the inner loop for the m of this pass, then the carry propagation
TextbookInner(T_digits, i, m, N_digits) ==
    PropagateFrom(TextbookStep(TextbookStep([T_digits |-> T_digits, carry |-> << >>],
                                            i, 0, m, N_digits),
                               i, 1, m, N_digits),
                  i + 2)

\* one pass of `for i in range(n)`; m = (T_digits[i] * N_prime) & (radix - 1)
TextbookRound(T_digits, i, N_digits, N_prime) ==
    TextbookInner(T_digits, i, Mask64(Mul(T_digits[i], N_prime)), N_digits)

TextbookRounds(T_digits, N_digits, N_prime) ==
    TextbookRound(TextbookRound(T_digits, 0, N_digits, N_prime), 1, N_digits, N_prime)

TextbookDigits(T, N, N_prime) ==
    TextbookRounds(SplitLimbs(T, 4), SplitLimbs(N, 2), N_prime)

\* result = sum of T_digits[n + i] * radix^i
TextbookResult(T_digits) == Add(T_digits[2], Shl64(T_digits[3]))

\* if result >= N: result -= N
TextbookFinalSub(result, N) == IF Ge(result, N) THEN Sub(result, N) ELSE result

textbook_redc(T, N, N_prime) ==
    TextbookFinalSub(TextbookResult(TextbookDigits(T, N, N_prime)), N)

-----------------------------------------------------------------------------
(* verify_mont_math.py: montgomery_reduce, on unbounded integers *)

\* t_i = (result >> (64 * i)) & ((1 << 64) - 1)
ReduceLimb(result, i) == Mask64(ShrDigits(result, LimbDigits * i))

\* result = result + m * p * (1 << (64 * i))
ReduceAdd(result, i, m, pp) == Add(result, ShlDigits(Mul(m, pp), LimbDigits * i))

\* m taken as t_i, not multiplied by inv
ReduceRoundNoInv(result, i, pp, inv) == ReduceAdd(result, i, ReduceLimb(result, i), pp)

\* one pass of `for i in range(2)`; m = (t_i * inv) & ((1 << 64) - 1)
ReduceRound(result, i, pp, inv) ==
    ReduceAdd(result, i, Mask64(Mul(ReduceLimb(result, i), inv)), pp)

\* the value after `result = result >> 128`
ReduceShifted(T, pp, inv) ==
    ShrDigits(ReduceRound(ReduceRound(T, 0, pp, inv), 1, pp, inv), 2 * LimbDigits)

\* the conditional subtraction of montgomery_reduce left out
ReduceFinalSubSkipped(result, pp) == result

\* if result >= p: result -= p
ReduceFinalSub(result, pp) == IF Ge(result, pp) THEN Sub(result, pp) ELSE result

montgomery_reduce(T, pp, inv) == ReduceFinalSub(ReduceShifted(T, pp, inv), pp)

-----------------------------------------------------------------------------
(* test_montgomery.py: the manual reduction of a value held in t[0], t[1] *)

\* mprime = (1 << 64) - 1
mprime == Sub(Pow2(64), One)

\* val = t[i + j] + ((temp >> (64 * j)) & mask) + carry
ManualVal(st, i, j, temp) ==
    Add(Add(st.t[i + j], Mask64(ShrDigits(temp, LimbDigits * j))), st.carry)

\* t[i + j] = val & mask; carry = val >> 64
ManualStore(st, k, val) ==
    [t |-> [st.t EXCEPT ![k] = Mask64(val)], carry |-> Shr64(val)]

\* the carry of val not passed on to the next limb
ManualStepNoCarry(st, i, j, temp) ==
    IF i + j < 4
    THEN [t |-> [st.t EXCEPT ![i + j] = Mask64(ManualVal(st, i, j, temp))],
          carry |-> << >>]
    ELSE st

\* one pass of `for j in range(4)`, guarded by `if i + j < 4`
ManualStep(st, i, j, temp) ==
    IF i + j < 4 THEN ManualStore(st, i + j, ManualVal(st, i, j, temp)) ELSE st

\* the inner loop for the temp of this pass
ManualInner(t, i, temp) ==
    ManualStep(ManualStep(ManualStep(ManualStep([t |-> t, carry |-> << >>],
                                                i, 0, temp),
                                     i, 1, temp),
                          i, 2, temp),
               i, 3, temp).t

\* one pass of `for i in range(2)`; m = (t[i] * mprime) & mask; temp = m * p
ManualRound(t, i) == ManualInner(t, i, Mul(Mask64(Mul(t[i], mprime)), p))

\* t = [e & mask, (e >> 64) & mask, 0, 0]
ManualLimbs(e) ==
    [k \in 0..3 |-> IF k < 2 THEN Mask64(ShrDigits(e, LimbDigits * k)) ELSE << >>]

\* the two limbs joined in the wrong order
ManualResultSwapped(t) == BitOr(Shl64(t[2]), t[3])

\* result = (t[3] << 64) | t[2]
ManualResult(t) == BitOr(Shl64(t[3]), t[2])

from_montgomery(e) == ManualResult(ManualRound(ManualRound(ManualLimbs(e), 0), 1))

-----------------------------------------------------------------------------
(* compute_montgomery_constants.py: extended_gcd, mod_inverse.  The         *)
(* coefficients x, y may be negative: a signed integer is [neg, mag].       *)

Pos(x) == [neg |-> FALSE, mag |-> x]

\* x - y on signed integers
SSub(x, y) ==
    IF x.neg = y.neg
    THEN IF Ge(x.mag, y.mag)
         THEN [neg |-> x.neg /\ x.mag # y.mag, mag |-> Sub(x.mag, y.mag)]
         ELSE [neg |-> ~x.neg, mag |-> Sub(y.mag, x.mag)]
    ELSE [neg |-> x.neg, mag |-> Add(x.mag, y.mag)]

\* a signed integer of the given magnitude; zero is not negative
Signed(neg, mag) == [neg |-> neg /\ Len(mag) # 0, mag |-> mag]

\* n * x for n >= 0 and signed x
SMul(n, x) == Signed(x.neg, Mul(n, x.mag))

\* a remainder of the magnitude, taken off m when x is negative
SModFrom(x, m, rem) == IF x.neg /\ Len(rem) # 0 THEN Sub(m, rem) ELSE rem

\* Python's x % m for signed x and m > 0: the result is in [0, m)
SMod(x, m) == SModFrom(x, m, Mod(x.mag, m))

\* the call below gets (b % a, a); this one keeps its quotient b // a
GcdDownStep(st, dm) == [a |-> dm.r, b |-> st.a, qs |-> Append(st.qs, dm.q)]

\* the recursion of extended_gcd, unfolded.  Going down, each call passes
\* (b % a, a) to the next and keeps its quotient b // a, until a == 0.
GcdDown(st) == GcdDownStep(st, DivMod(st.b, st.a))

\* x = y1 - x1, the quotient left out
GcdUpNoQuotient(qs, st) ==
    [k |-> st.k - 1, x |-> SSub(st.y, st.x), y |-> st.x]

\* Coming back up, the innermost call returns (b, 0, 1) and each caller computes
\* x = y1 - (b // a) * x1, y = x1 from the (x1, y1) returned to it.
GcdUp(qs, st) ==
    [k |-> st.k - 1, x |-> SSub(st.y, SMul(qs[st.k], st.x)), y |-> st.x]

\* the levels are walked in blocks, which keeps the evaluation shallow
Block == 16

RECURSIVE GcdDescendBlock(_, _)
GcdDescendBlock(st, n) ==
    IF Len(st.a) = 0 \/ n = 0 THEN st ELSE GcdDescendBlock(GcdDown(st), n - 1)

RECURSIVE GcdDescend(_)
GcdDescend(st) ==
    IF Len(st.a) = 0 THEN st ELSE GcdDescend(GcdDescendBlock(st, Block))

RECURSIVE GcdAscendBlock(_, _, _)
GcdAscendBlock(qs, st, n) ==
    IF st.k = 0 \/ n = 0 THEN st ELSE GcdAscendBlock(qs, GcdUp(qs, st), n - 1)

RECURSIVE GcdAscend(_, _)
GcdAscend(qs, st) ==
    IF st.k = 0 THEN st ELSE GcdAscend(qs, GcdAscendBlock(qs, st, Block))

\* return gcd, x, y
GcdTriple(down, up) == [gcd |-> down.b, x |-> up.x, y |-> up.y]

\* if a == 0: return b, 0, 1
GcdResult(down) ==
    GcdTriple(down, GcdAscend(down.qs, [k |-> Len(down.qs), x |-> Pos(<< >>),
                                        y |-> Pos(One)]))

extended_gcd(a, b) == GcdResult(GcdDescend([a |-> a, b |-> b, qs |-> << >>]))

None == << -1 >>

\* the test `if gcd != 1` left out
mod_inverse_unchecked(a, m) == SMod(extended_gcd(a, m).x, m)

\* if gcd != 1: return None; return x % m
InverseFrom(g, m) == IF g.gcd # One THEN None ELSE SMod(g.x, m)

mod_inverse(a, m) == InverseFrom(extended_gcd(a, m), m)

\* INV derived as the inverse of p, not of -p
NegMod64Unsigned(pp) == Mod(pp, Pow2(64))

\* (-p) % (1 << 64)
NegMod64(pp) == SMod([neg |-> Len(pp) # 0, mag |-> pp], Pow2(64))

\* inv_p = mod_inverse((-p) % (1 << 64), 1 << 64)
inv_p == mod_inverse(NegMod64(p), Pow2(64))

\* pow(r, -1, p)
r_inv == mod_inverse(r, p)

-----------------------------------------------------------------------------
(* Operands *)

MaxSmall == 3

MaxInverse == 6

MaxModulus == 10

MaxSize == 20

MaxLog == 34

\* a fixed 128-bit value below p whose multiples fill all limbs
Spread == <<52, 200, 237, 92, 96, 192, 156, 243, 21, 124, 74, 127, 185, 121, 55, 158>>

\* canonical values k and p - k
Edge(n) == {FromInt(k) : k \in 0..n} \cup {Sub(p, FromInt(k)) : k \in 1..n}

\* canonical values (k * Spread) % p
Scattered(n) == {Mod(Mul(FromInt(k), Spread), p) : k \in 1..n}

Canonicals == Edge(MaxSmall) \cup Scattered(MaxSmall)

\* their Montgomery forms (x * r) % p
MontForms == {Mod(Mul(x, r), p) : x \in Canonicals}

Operands == Canonicals \cup MontForms

\* the Montgomery forms of k and p - k
MontEdge == {Mod(Mul(x, r), p) : x \in Edge(MaxSmall)}

Scripts == {"correct_montgomery_ref", "fixed_redc", "textbook_redc"}

\* the modulus candidates whose INV is derived: p, its even neighbour, small ones
Moduli == {p, Add(p, One)} \cup {FromInt(k) : k \in 1..MaxModulus}

\* the exact value (a * b * R^-1) mod p is the y < p with (y * r) % p = (a * b) % p
IsMontProduct(y, a, b) == Lt(y, p) /\ Mod(Mul(y, r), p) = Mod(Mul(a, b), p)

RECURSIVE GcdInt(_, _)
GcdInt(m, n) == IF n = 0 THEN m ELSE GcdInt(n, m % n)

IsOdd(x) == Len(x) > 0 /\ x[1] % 2 = 1

-----------------------------------------------------------------------------
(* Python's pow(b, e, m) for e >= 0, m > 0: binary exponentiation over the  *)
(* bits of the unbounded exponent, most significant first                  *)

\* (x >> n) & 1
BitAt(x, n) == (Digit(x, (n \div 8) + 1) \div (2 ^ (n % 8))) % 2

RECURSIVE BitLengthInt(_)
BitLengthInt(d) == IF d = 0 THEN 0 ELSE 1 + BitLengthInt(d \div 2)

\* x.bit_length()
BitLength(x) == IF Len(x) = 0 THEN 0 ELSE 8 * (Len(x) - 1) + BitLengthInt(x[Len(x)])

\* the squared result, multiplied by b when the bit is set
PowBit(sq, bit, b, m) == IF bit = 1 THEN Mod(Mul(sq, b), m) ELSE sq

\* st = [i, result]: the bits i - 1 .. 0 of e are still to be read
PowStep(st, b, e, m) ==
    [i      |-> st.i - 1,
     result |-> PowBit(Mod(Mul(st.result, st.result), m), BitAt(e, st.i - 1), b, m)]

RECURSIVE PowBlock(_, _, _, _, _)
PowBlock(st, b, e, m, n) ==
    IF st.i = 0 \/ n = 0 THEN st ELSE PowBlock(PowStep(st, b, e, m), b, e, m, n - 1)

RECURSIVE PowLoop(_, _, _, _)
PowLoop(st, b, e, m) ==
    IF st.i = 0 THEN st ELSE PowLoop(PowBlock(st, b, e, m, Block), b, e, m)

PowMod(b, e, m) ==
    PowLoop([i |-> BitLength(e), result |-> Mod(One, m)], Mod(b, m), e, m).result

-----------------------------------------------------------------------------
(* The hard-coded constants of fp128.rs, as the scripts quote them *)

\* rust_r = [0xFFFFFFFFFFFFFFFF, 0x00000FFFFFFFFFFF]
rust_r == <<INV, <<255, 255, 255, 255, 255, 15>> >>

\* rust_r2 = [0xFFFEFFFFEFFFFF01, 0x000FDFFFFEFFFFEF]
rust_r2 == << <<1, 255, 255, 239, 255, 255, 254, 255>>,
              <<239, 255, 255, 254, 255, 223, 15>> >>

\* the limbs joined without the shift
RustValueNoShift(limbs) == BitOr(limbs[1], limbs[2])

\* rust_r_value = rust_r[0] | (rust_r[1] << 64)
RustValue(limbs) == BitOr(limbs[1], Shl64(limbs[2]))

ConstantScripts == {"compute_montgomery_constants", "verify_montgomery_constants",
                    "verify_r2", "test_montgomery"}

\* R as each script derives it
DeriveR(script) ==
    IF script = "compute_montgomery_constants" THEN PowMod(<<2>>, FromInt(128), p)
    ELSE Mod(Pow2(128), p)

\* R^2 as each script derives it, from its R
DeriveR2(script, R) ==
    IF script = "compute_montgomery_constants" THEN PowMod(<<2>>, FromInt(256), p)
    ELSE IF script = "verify_montgomery_constants" THEN Mod(Pow2(256), p)
    ELSE Mod(Mul(R, R), p)

\* (-p) * inv_p, a product of a negative and a non-negative integer
NegMul(pp, inv) == Signed(TRUE, Mul(pp, inv))

-----------------------------------------------------------------------------
(* The pinned root of unity and its byte forms *)

\* st = [i, v]: v is the value of the first i - 1 digits
RECURSIVE DecimalFrom(_, _, _)
DecimalFrom(digits, n, st) ==
    IF st.i > n THEN st.v
    ELSE DecimalFrom(digits, n,
                     [i |-> st.i + 1,
                      v |-> Add(Mul(st.v, <<10>>), FromInt(digits[st.i]))])

\* the value of a decimal literal of n digits, most significant digit first
FromDecimal(digits, n) == DecimalFrom(digits, n, [i |-> 1, v |-> << >>])

\* cpp_omega = 164956748514267535023998284330560247862
cpp_omega ==
    FromDecimal(<<1, 6, 4, 9, 5, 6, 7, 4, 8, 5, 1, 4, 2, 6, 7, 5, 3, 5, 0, 2,
                  3, 9, 9, 8, 2, 8, 4, 3, 3, 0, 5, 6, 0, 2, 4, 7, 8, 6, 2>>, 39)

\* omega_32_bytes = [0x36, 0x0c, 0xda, 0x62, 0xfe, 0xea, 0x28, 0x7c,
\*                   0xce, 0x03, 0x89, 0x3f, 0xf2, 0x73, 0x50, 0x01]
omega_32_bytes ==
    <<54, 12, 218, 98, 254, 234, 40, 124, 206, 3, 137, 63, 242, 115, 80, 1>>

\* int.from_bytes(bytes, 'little'): the sum of bytes[i] * 256^i
RECURSIVE FromBytesLE(_, _)
FromBytesLE(bytes, i) ==
    IF i > Len(bytes) THEN << >>
    ELSE Add(FromInt(bytes[i]), Mul(FromBytesLE(bytes, i + 1), FromInt(Base)))

\* x.to_bytes(n, 'little'): the byte (x >> (8 * i)) & 0xff at index i
ToBytesLE(x, n) == [i \in 1..n |-> Digit(x, i)]

OmegaTests == {"test_cpp_omega", "test_cpp_omega_directly"}

-----------------------------------------------------------------------------
(* precompute_roots.py: the roots of unity and the lookup generated from    *)
(* them; the repeated squarings of the comparison scripts                  *)

\* sizes = [2, 4, 8, ..., 65536]
sizes == {2 ^ k : k \in 1..16}

\* n.bit_length() taken for log2(n)
Log2NoDecrement(n) == BitLengthInt(n)

\* log_n = n.bit_length() - 1
Log2(n) == BitLengthInt(n) - 1

\* exponent = 2**(32 - log_n); omega_n = pow(cpp_omega_32, exponent, p)
RootOfLog(log_n) == PowMod(cpp_omega, Pow2(32 - log_n), p)

\* the loop `for k in range(1, log_n + 1)`, which clears `primitive` when
\* pow(omega_n, n // (2**k), p) == 1
IsPrimitive(omega_n, n, log_n) ==
    \A k \in 1..log_n : PowMod(omega_n, FromInt(n \div (2 ^ k)), p) # One

\* roots[n] for the sizes of the table
roots == [n \in sizes |-> RootOfLog(Log2(n))]

\* the sizes of the table as requested sizes
SizeKeys == {FromInt(n) : n \in sizes}

\* the index of a requested size in the table
KeyOf(n) == CHOOSE k \in sizes : FromInt(k) = n

\* match n { 2 => Some(...), ..., 65536 => Some(...), _ => None }
Lookup(n) == IF n \in SizeKeys THEN roots[KeyOf(n)] ELSE None

\* the reduction left out
SquaredNoMod(current) == Mul(current, current)

\* current = (current * current) % p
Squared(current) == Mod(Mul(current, current), p)

\* omega_32 = 124138436495952958347847942047415585016
omega_32 ==
    FromDecimal(<<1, 2, 4, 1, 3, 8, 4, 3, 6, 4, 9, 5, 9, 5, 2, 9, 5, 8, 3, 4,
                  7, 8, 4, 7, 9, 4, 2, 0, 4, 7, 4, 1, 5, 5, 8, 5, 0, 1, 6>>, 39)

SquaringScripts == {"compute_python_large_powers", "compare_intermediate_steps"}

\* the base each script squares
SquaringBase(script) ==
    IF script = "compute_python_large_powers" THEN cpp_omega ELSE omega_32

\* range(15) and range(1, 32)
SquaringPasses(script) == IF script = "compute_python_large_powers" THEN 15 ELSE 31

-----------------------------------------------------------------------------
(* debug_step_by_step.py: the exponentiation written out bit by bit, least  *)
(* significant bit first                                                   *)

\* for bit_pos in range(32)
ExpBits == 32

\* the product taken whatever the bit
LoopResultAlways(bit, result, base) == Mod(Mul(result, base), p)

\* if bit == 1: result = (result * base) % p
LoopResult(bit, result, base) ==
    IF bit = 1 THEN Mod(Mul(result, base), p) ELSE result

\* if bit_pos < 31: base = (base * base) % p
LoopBase(bit_pos, base) ==
    IF bit_pos < ExpBits - 1 THEN Mod(Mul(base, base), p) ELSE base

\* the bases and the exponents the loop is run on
LoopBases == {<< >>, cpp_omega, Sub(p, One)}
LoopExponents ==
    {<< >>, FromInt(MaxSmall + 2), Pow2(31), Sub(Pow2(32), One),
     Add(Pow2(31), Pow2(MaxSmall))}

-----------------------------------------------------------------------------
(* LimbOps.addc and FieldOps.add on two 64-bit limbs *)

\* addc(a, b, carry_in) -> (sum, carry_out): the 65-bit sum split at bit 64
addc(a, b, carry_in) ==
    [sum       |-> Mask64(Add(Add(a, b), carry_in)),
     carry_out |-> Shr64(Add(Add(a, b), carry_in))]

\* the two limbs of a value below 2^128
Limbs(x) == <<Mask64(x), Shr64(x)>>

\* x - p on two limbs, the borrow out of the top limb taken from carry
SubP(x, carry) == Mod(Sub(Add(x, Shl64(Shl64(carry))), p), Pow2(128))

\* the carry out of the top limb is dropped before the comparison
AddReduceNoCarry(x, carry) == IF Ge(x, p) THEN SubP(x, << >>) ELSE x

\* if result >= p, subtract p once; the result is the two limbs x and the
\* carry out of the top limb
AddReduce(x, carry) == IF carry = One \/ Ge(x, p) THEN SubP(x, carry) ELSE x

\* the top limbs added with the carry of the low limbs
AddTop(lo, hi) == AddReduce(BitOr(lo.sum, Shl64(hi.sum)), hi.carry_out)

AddLow(a, b, lo) == AddTop(lo, addc(a[2], b[2], lo.carry_out))

\* add(a, b): limb-wise add with carry, then one conditional subtraction
add(a, b) == AddLow(Limbs(a), Limbs(b), addc(Limbs(a)[1], Limbs(b)[1], << >>))

\* the operands of add: canonical values, and values whose low limbs carry
AddOperands == Canonicals \cup {Sub(Pow2(64), One), Pow2(127)}

-----------------------------------------------------------------------------
(* compute_correct_omega.py: the search for a generator and the root of    *)
(* unity derived from it                                                   *)

\* the loop `while temp % 2 == 0: temp //= 2; factors_of_2 += 1`, x > 0
RECURSIVE FactorsOf2(_, _)
FactorsOf2(x, n) == IF BitAt(x, n) = 1 THEN n ELSE FactorsOf2(x, n + 1)

\* for factor in [2, 3, 5, 7, 11, 13, 17, 19]
SmallFactors == <<2, 3, 5, 7, 11, 13, 17, 19>>

\* no factor of the list that divides p - 1 has pow(g, (p-1)//factor, p) == 1
FactorsPass(g, pp, pm1) ==
    \A i \in 1..Len(SmallFactors) :
        Mod(pm1, FromInt(SmallFactors[i])) = << >>
            => PowMod(g, Div(pm1, FromInt(SmallFactors[i])), pp) # One

\* is_primitive_root(g, p)
is_primitive_root(g, pp) ==
    IF PowMod(g, Div(Sub(pp, One), <<2>>), pp) = One THEN FALSE
    ELSE FactorsPass(g, pp, Sub(pp, One))

\* range(2, 100)
FirstCandidate == 2
LastCandidate == 99

\* the exponent taken as (p - 1) // (2**33)
OmegaOfHalved(primitive_root, pp) ==
    PowMod(FromInt(primitive_root), Div(Sub(pp, One), Pow2(33)), pp)

\* exponent = (p - 1) // (2**32); omega = pow(primitive_root, exponent, p)
OmegaOf(primitive_root, pp) ==
    PowMod(FromInt(primitive_root), Div(Sub(pp, One), Pow2(32)), pp)

\* the candidate used: the one found, or 3 when none was found
Candidate(found) == IF found = 0 THEN 3 ELSE found

\* the moduli the derivation is run on: p; the prime 18 * 2^32 + 1; the
\* composites 2^32 + 1 and 40140 * 2^32 + 1; 97, with 2^5 in p - 1
DeriveModuli ==
    {p, Add(Mul(FromInt(18), Pow2(32)), One), Add(Pow2(32), One),
     Add(Mul(FromInt(40140), Pow2(32)), One), FromInt(97)}

\* the generators is_primitive_root is called with
Generators == {2, 59, 97}

-----------------------------------------------------------------------------
(* trace_six_mult.py: the product of two two-limb values on four limbs *)

\* prod_limbs after the loops over i, j: val & mask is added to
\* prod_limbs[i + j] and val >> 64 to prod_limbs[i + j + 1]
ProdLimbs(x, y) ==
    [k \in 0..3 |->
        IF k = 0 THEN Mask64(Mul(x[0], y[0]))
        ELSE IF k = 1
             THEN Add(Add(Shr64(Mul(x[0], y[0])), Mask64(Mul(x[0], y[1]))),
                      Mask64(Mul(x[1], y[0])))
        ELSE IF k = 2
             THEN Add(Add(Shr64(Mul(x[0], y[1])), Shr64(Mul(x[1], y[0]))),
                      Mask64(Mul(x[1], y[1])))
        ELSE Shr64(Mul(x[1], y[1]))]

\* the limb is masked and its carry is not added to the next limb
HandleCarryDropped(prod_limbs, i) == [prod_limbs EXCEPT ![i] = Mask64(prod_limbs[i])]

\* one pass of `for i in range(3)`: if prod_limbs[i] >= (1 << 64), its carry
\* goes to prod_limbs[i + 1] and it is masked
HandleCarry(prod_limbs, i) ==
    IF Ge(prod_limbs[i], Pow2(64))
    THEN [prod_limbs EXCEPT ![i] = Mask64(prod_limbs[i]),
                            ![i + 1] = Add(prod_limbs[i + 1], Shr64(prod_limbs[i]))]
    ELSE prod_limbs

-----------------------------------------------------------------------------
(* reference_montgomery.py: montgomery_mult, whose limbs[i + 2] is an       *)
(* unbounded integer                                                       *)

\* limbs[i + 2] += carry
ReferenceCarry(st, k) == [st.limbs EXCEPT ![k] = Add(st.limbs[k], st.carry)]

\* one pass of `for i in range(2)`; m = (limbs[i] * inv) & ((1 << 64) - 1)
ReferenceRound(limbs, i, p_limbs, inv) ==
    ReferenceCarry(AddMulStep(AddMulStep([limbs |-> limbs, carry |-> << >>],
                                         i, 0, Mask64(Mul(limbs[i], inv)), p_limbs),
                              i, 1, Mask64(Mul(limbs[i], inv)), p_limbs),
                   i + 2)

\* montgomery_mult(a, b, p, r, inv) of reference_montgomery.py
reference_montgomery_mult(a, b, pp, rr, inv) ==
    FinalSub(UpperLimbs(ReferenceRound(ReferenceRound(SplitLimbs(Mul(a, b), 4), 0,
                                                      SplitLimbs(pp, 2), inv),
                                       1, SplitLimbs(pp, 2), inv)),
             pp)

\* verify_omega_python.py: for g in [2, 3, 5, 7, 11, 13, 17, 19]
generators == <<2, 3, 5, 7, 11, 13, 17, 19>>

-----------------------------------------------------------------------------
Init == call = [fn |-> "idle"]

\* correct_montgomery_ref.py: result = montgomery_mult(a, b, p, r, inv)
MontgomeryMult ==
    /\ call.fn = "idle"
    /\ \E a \in Operands, b \in Operands :
          call' = [fn |-> "montgomery_mult", a |-> a, b |-> b,
                   ret |-> montgomery_mult(a, b, p, r, inv_p)]

\* fixed_redc.py: t = a * b; result = fixed_redc(t, p, inv).  passes holds
\* [limbs, carry] after each pass of the inner loop (i, j) = (0, 0), (0, 1),
\* (1, 0), (1, 1), rounds the limbs after each pass of the outer loop
FixedRedc ==
    /\ call.fn = "idle"
    /\ \E a \in Operands, b \in Operands :
        \E limbs \in {SplitLimbs(Mul(a, b), 4)}, p_limbs \in {SplitLimbs(p, 2)} :
        \E s00 \in {AddMulStep([limbs |-> limbs, carry |-> << >>], 0, 0,
                                Mask64(Mul(limbs[0], inv_p)), p_limbs)} :
        \E s01 \in {AddMulStep(s00, 0, 1, Mask64(Mul(limbs[0], inv_p)), p_limbs)} :
        \E round0 \in {MaskedRound(limbs, 0, p_limbs, inv_p)} :
        \E s10 \in {AddMulStep([limbs |-> round0, carry |-> << >>], 1, 0,
                                Mask64(Mul(round0[1], inv_p)), p_limbs)} :
        \E s11 \in {AddMulStep(s10, 1, 1, Mask64(Mul(round0[1], inv_p)), p_limbs)} :
          call' = [fn |-> "fixed_redc", a |-> a, b |-> b,
                   passes |-> <<s00, s01, s10, s11>>,
                   rounds |-> <<round0, MaskedRound(round0, 1, p_limbs, inv_p)>>,
                   ret |-> fixed_redc(Mul(a, b), p, inv_p)]

\* textbook_redc.py: t = a * b; result = textbook_redc(t, p, inv)
TextbookRedc ==
    /\ call.fn = "idle"
    /\ \E a \in Operands, b \in Operands :
        \E round0 \in {TextbookRound(SplitLimbs(Mul(a, b), 4), 0,
                                     SplitLimbs(p, 2), inv_p)} :
          call' = [fn |-> "textbook_redc", a |-> a, b |-> b,
                   rounds |-> <<round0,
                                TextbookRound(round0, 1, SplitLimbs(p, 2), inv_p)>>,
                   ret |-> textbook_redc(Mul(a, b), p, inv_p)]

\* the Montgomery product as each script computes it
ScriptProduct(script, a, b) ==
    IF script = "correct_montgomery_ref" THEN montgomery_mult(a, b, p, r, inv_p)
    ELSE IF script = "fixed_redc" THEN fixed_redc(Mul(a, b), p, inv_p)
    ELSE textbook_redc(Mul(a, b), p, inv_p)

\* the test cases of the three scripts: x * y on canonical x, y, converted
\* to Montgomery form, multiplied, and converted back with pow(r, -1, p)
TestCase ==
    /\ call.fn = "idle"
    /\ \E script \in Scripts, x \in Edge(MaxSmall), y \in Edge(MaxSmall) :
          \E x_montgomery \in {Mod(Mul(x, r), p)},
             y_montgomery \in {Mod(Mul(y, r), p)} :
             \E result \in {ScriptProduct(script, x_montgomery, y_montgomery)} :
                \E result_regular \in {Mod(Mul(result, r_inv), p)} :
                   call' = [fn |-> "test_case", script |-> script, x |-> x, y |-> y,
                            result |-> result, result_regular |-> result_regular]

\* from_canonical(x): the REDC of x * R2, by each REDC of the repository
FromCanonical ==
    /\ call.fn = "idle"
    /\ \E x \in Canonicals :
          call' = [fn |-> "from_canonical", x |-> x,
                   by_reduce   |-> montgomery_reduce(Mul(x, R2), p, INV),
                   by_fixed    |-> fixed_redc(Mul(x, R2), p, inv_p),
                   by_textbook |-> textbook_redc(Mul(x, R2), p, inv_p)]

\* to_canonical(from_canonical(x)): montgomery_reduce, then the manual reduction
RoundTrip ==
    /\ call.fn = "idle"
    /\ \E x \in Canonicals :
          \E e \in {montgomery_reduce(Mul(x, R2), p, INV)} :
             call' = [fn |-> "round_trip", x |-> x, e |-> e, ret |-> from_montgomery(e)]

\* (a * b) * c and a * (b * c), every product by fixed_redc
Associate ==
    /\ call.fn = "idle"
    /\ \E a \in MontEdge, b \in MontEdge, c \in MontEdge :
          \E ab \in {fixed_redc(Mul(a, b), p, inv_p)},
             bc \in {fixed_redc(Mul(b, c), p, inv_p)} :
             call' = [fn |-> "associate", a |-> a, b |-> b, c |-> c,
                      left  |-> fixed_redc(Mul(ab, c), p, inv_p),
                      right |-> fixed_redc(Mul(a, bc), p, inv_p)]

\* check_six_modp.py, verify_mont_math.py: a^-1 by the extended Euclidean
\* algorithm, a * a^-1, and the reduction of (aR)(a^-1 R) mod p
Inverse ==
    /\ call.fn = "idle"
    /\ \E a \in (Edge(MaxInverse) \cup Scattered(MaxInverse)) \ {<< >>} :
          \E a_inv \in {SMod(extended_gcd(a, p).x, p)} :
             \E a_mont \in {Mod(Mul(a, r), p)}, a_inv_mont \in {Mod(Mul(a_inv, r), p)} :
                \E product_mont \in {Mod(Mul(a_mont, a_inv_mont), p)} :
                   call' = [fn |-> "inverse", a |-> a, a_inv |-> a_inv,
                            product      |-> Mod(Mul(a, a_inv), p),
                            product_mont |-> product_mont,
                            reduced      |-> montgomery_reduce(product_mont, p, INV)]

\* mod_inverse(a, m) on small arguments
ModInverse ==
    /\ call.fn = "idle"
    /\ \E a \in 0..(MaxModulus + 2), m \in 1..MaxModulus :
          call' = [fn |-> "mod_inverse", a |-> a, m |-> m,
                   ret |-> mod_inverse(FromInt(a), FromInt(m))]

\* inv_p = mod_inverse((-p) % (1 << 64), 1 << 64) for a modulus candidate
DeriveInv ==
    /\ call.fn = "idle"
    /\ \E pp \in Moduli :
          call' = [fn |-> "derive_inv", pp |-> pp,
                   ret |-> mod_inverse(NegMod64(pp), Pow2(64))]

\* compute_montgomery_constants.py, verify_montgomery_constants.py: the checks
\* of INV, for a modulus candidate whose inverse exists
CheckInv ==
    /\ call.fn = "idle"
    /\ \E pp \in Moduli :
          \E inv \in {mod_inverse(NegMod64(pp), Pow2(64))} :
             /\ inv # None
             /\ \E p_low \in {Mod(pp, Pow2(64))} :
                   call' = [fn |-> "check_inv", pp |-> pp, inv_p |-> inv,
                            check_inv |-> SMod(NegMul(pp, inv), Pow2(64)),
                            p_low     |-> p_low,
                            product   |-> Mod(Mul(p_low, inv), Pow2(64)),
                            expected  |-> Mod(Sub(Pow2(64), One), Pow2(64)),
                            matches   |-> INV = inv]

\* the scripts that derive R and R^2 and quote the constants of fp128.rs
VerifyConstants ==
    /\ call.fn = "idle"
    /\ \E script \in ConstantScripts :
          \E R \in {DeriveR(script)} :
             call' = [fn |-> "verify_constants", script |-> script,
                      R  |-> R,
                      R2 |-> DeriveR2(script, R),
                      rust_r_value  |-> RustValue(rust_r),
                      rust_r2_value |-> RustValue(rust_r2)]

\* test_cpp_omega.py, test_cpp_omega_directly.py: the tests of cpp_omega, and
\* its bytes for Rust
TestCppOmega ==
    /\ call.fn = "idle"
    /\ \E script \in OmegaTests :
          \E omega_2_31 \in {PowMod(cpp_omega, Pow2(31), p)} :
             call' = [fn |-> "test_cpp_omega", script |-> script,
                      omega_2_32 |-> PowMod(cpp_omega, Pow2(32), p),
                      omega_2_31 |-> omega_2_31,
                      omega_2_31_squared |-> Mod(Mul(omega_2_31, omega_2_31), p),
                      cpp_omega_bytes    |-> ToBytesLE(cpp_omega, 16)]

\* check_omega.py: the value from the comment against the bytes in the code
CheckOmega ==
    /\ call.fn = "idle"
    /\ \E omega \in {cpp_omega} :
          call' = [fn |-> "check_omega",
                   omega_32_from_comment |-> omega,
                   omega_32_from_bytes   |-> FromBytesLE(omega_32_bytes, 1),
                   omega_2_32 |-> PowMod(omega, Pow2(32), p),
                   omega_2_31 |-> PowMod(omega, Pow2(31), p)]

\* precompute_roots.py: omega_n for a size of the table, and its checks
PrecomputeRoot ==
    /\ call.fn = "idle"
    /\ \E n \in sizes :
          \E log_n \in {Log2(n)} :
             \E omega_n \in {RootOfLog(log_n)} :
                call' = [fn |-> "precompute_root", n |-> n, log_n |-> log_n,
                         omega_n   |-> omega_n,
                         test      |-> PowMod(omega_n, FromInt(n), p),
                         primitive |-> IsPrimitive(omega_n, n, log_n)]

\* the generated lookup, asked for a size n
RootFor ==
    /\ call.fn = "idle"
    /\ \E n \in {FromInt(k) : k \in 0..MaxSize} \cup {Pow2(k) : k \in 0..MaxLog} :
          call' = [fn |-> "root_for", n |-> n, ret |-> Lookup(n)]

\* compute_python_large_powers.py, compare_intermediate_steps.py: the loop of
\* squarings starts from the base
StartSquaring ==
    /\ call.fn = "idle"
    /\ \E script \in SquaringScripts :
          call' = [fn |-> "squaring", script |-> script, k |-> 0,
                   omega |-> SquaringBase(script), current |-> SquaringBase(script)]

\* one pass of the loop
SquareStep ==
    /\ call.fn = "squaring"
    /\ call.k < SquaringPasses(call.script)
    /\ call' = [call EXCEPT !.k = call.k + 1, !.current = Squared(call.current)]

\* debug_step_by_step.py: result = 1; base = omega, before the first bit
StartPow ==
    /\ call.fn = "idle"
    /\ \E base0 \in LoopBases, exp \in LoopExponents :
          call' = [fn |-> "pow_loop", base0 |-> base0, exp |-> exp, bit_pos |-> 0,
                   result |-> One, base |-> base0]

\* one pass of `for bit_pos in range(32)`
PowBitStep ==
    /\ call.fn = "pow_loop"
    /\ call.bit_pos < ExpBits
    /\ call' = [call EXCEPT
                  !.bit_pos = call.bit_pos + 1,
                  !.result = LoopResult(BitAt(call.exp, call.bit_pos),
                                        call.result, call.base),
                  !.base = LoopBase(call.bit_pos, call.base)]

\* add(a, b) for two canonical elements
FieldAdd ==
    /\ call.fn = "idle"
    /\ \E a \in AddOperands, b \in AddOperands :
          call' = [fn |-> "add", a |-> a, b |-> b, ret |-> add(a, b),
                   low |-> addc(Mask64(a), Mask64(b), << >>)]

\* verify_mont_math.py: montgomery_reduce(T, p, INV) for T < p * 2^128: the
\* products of two operands, and the largest input p * 2^128 - 1
MontgomeryReduce ==
    /\ call.fn = "idle"
    /\ \E T \in {Mul(a, b) : a \in Operands, b \in Operands}
                 \cup {Sub(Mul(p, Pow2(128)), One)} :
          call' = [fn |-> "montgomery_reduce", T |-> T,
                   shifted |-> ReduceShifted(T, p, INV),
                   ret     |-> montgomery_reduce(T, p, INV)]

\* trace_six_mult.py: to_limbs of both operands, the four partial products,
\* then the three passes of the carry loop
TraceMult ==
    /\ call.fn = "idle"
    /\ \E a \in MontForms \cup {Sub(Pow2(128), One)},
          b \in MontForms \cup {Sub(Pow2(128), One)} :
          call' = [fn |-> "trace_mult", a |-> a, b |-> b,
                   prod_limbs |->
                       HandleCarry(HandleCarry(HandleCarry(
                           ProdLimbs(SplitLimbs(a, 2), SplitLimbs(b, 2)), 0), 1), 2)]

\* test_montgomery.py: the manual reduction of an element e below p (the
\* script runs it on R)
FromMontgomery ==
    /\ call.fn = "idle"
    /\ \E e \in Operands :
          call' = [fn |-> "from_montgomery", e |-> e, ret |-> from_montgomery(e)]

\* reference_montgomery.py: inv = pow(p, -1, 1 << 64); the test cases
\* (-1) * (-1) and omega * omega
ReferenceTest ==
    /\ call.fn = "idle"
    /\ \E x \in {Sub(p, One), cpp_omega} :
       \E inv \in {mod_inverse(Mod(p, Pow2(64)), Pow2(64))} :
       \E x_montgomery \in {Mod(Mul(x, r), p)} :
       \E result \in {reference_montgomery_mult(x_montgomery, x_montgomery, p, r, inv)} :
          call' = [fn |-> "reference_test", x |-> x, inv |-> inv,
                   x_montgomery |-> x_montgomery, result |-> result,
                   result_regular |-> Mod(Mul(result, r_inv), p)]

\* the call is over; the script goes on to its next call
Return == /\ call.fn # "idle"
          /\ call' = [fn |-> "idle"]

Next == \/ MontgomeryMult
        \/ FixedRedc
        \/ TextbookRedc
        \/ TestCase
        \/ FromCanonical
        \/ RoundTrip
        \/ Associate
        \/ Inverse
        \/ ModInverse
        \/ DeriveInv
        \/ CheckInv
        \/ VerifyConstants
        \/ TestCppOmega
        \/ CheckOmega
        \/ PrecomputeRoot
        \/ RootFor
        \/ StartSquaring
        \/ SquareStep
        \/ StartPow
        \/ PowBitStep
        \/ FieldAdd
        \/ MontgomeryReduce
        \/ TraceMult
        \/ FromMontgomery
        \/ ReferenceTest
        \/ Return

Spec == Init /\ [][Next]_vars

-----------------------------------------------------------------------------
(* The run of compute_correct_omega.py *)

\* lines 16-33 and 52: exit(1) unless 2^32 divides p - 1, else the search
\* starts at g = 2
StartDerive ==
    /\ call.fn = "idle"
    /\ \E pp \in DeriveModuli :
          call' = [fn    |-> "derive", pp |-> pp,
                   stage |-> IF FactorsOf2(Sub(pp, One), 0) >= 32
                             THEN "search" ELSE "exit",
                   g     |-> FirstCandidate, primitive_root |-> 0]

\* one pass of `for g in range(2, 100)`: break with primitive_root = g, or
\* go on to the next g; the loop ends after g = 99
SearchStep ==
    /\ call.fn = "derive"
    /\ call.stage = "search"
    /\ \E is_root \in {is_primitive_root(FromInt(call.g), call.pp)} :
          call' = [call EXCEPT
                     !.primitive_root = IF is_root THEN call.g ELSE 0,
                     !.stage = IF is_root \/ call.g = LastCandidate
                               THEN "searched" ELSE "search",
                     !.g = IF is_root \/ call.g = LastCandidate
                           THEN call.g ELSE call.g + 1]

\* lines 58-104: the fallback to 3, omega, its two checks (which only print)
\* and the bytes written out
DeriveOmega ==
    /\ call.fn = "derive"
    /\ call.stage = "searched"
    /\ \E omega \in {OmegaOf(Candidate(call.primitive_root), call.pp)} :
          call' = [fn |-> "derived", pp |-> call.pp,
                   found          |-> call.primitive_root # 0,
                   primitive_root |-> Candidate(call.primitive_root),
                   omega          |-> omega,
                   omega_to_2_32  |-> PowMod(omega, Pow2(32), call.pp),
                   omega_to_2_31  |-> PowMod(omega, Pow2(31), call.pp),
                   omega_bytes    |-> ToBytesLE(omega, 16)]

\* a call of is_primitive_root(g, p)
IsPrimitiveRoot ==
    /\ call.fn = "idle"
    /\ \E g \in Generators :
          call' = [fn |-> "is_primitive_root", g |-> g,
                   ret |-> is_primitive_root(FromInt(g), p)]

\* verify_omega_python.py, lines 5-27: the two powers of the omega under
\* test (the value of compare_intermediate_steps.py, or the bytes quoted by
\* check_omega.py); the search starts when omega^(2^32) != 1
VerifyOmega ==
    /\ call.fn = "idle"
    /\ \E omega \in {omega_32, FromBytesLE(omega_32_bytes, 1)} :
       \E omega_power_32 \in {PowMod(omega, Pow2(32), p)} :
          call' = [fn |-> "verify_omega", omega |-> omega,
                   omega_power_32 |-> omega_power_32,
                   omega_power_31 |-> PowMod(omega, Pow2(31), p),
                   stage   |-> IF omega_power_32 # One THEN "search" ELSE "valid",
                   k       |-> 1, test |-> None, candidate |-> None,
                   test_32 |-> None, test_31 |-> None, verdict |-> "none"]

\* one pass of `for g in [2, 3, ...]`: the generator test, the candidate and
\* its two powers; break on a correct omega
TryGenerator ==
    /\ call.fn = "verify_omega"
    /\ call.stage = "search"
    /\ \E test \in {PowMod(FromInt(generators[call.k]), Div(Sub(p, One), <<2>>), p)} :
       \E candidate \in {IF test = Sub(p, One)
                         THEN OmegaOf(generators[call.k], p) ELSE None} :
       \E test_32 \in {IF candidate # None
                       THEN PowMod(candidate, Pow2(32), p) ELSE None},
          test_31 \in {IF candidate # None
                       THEN PowMod(candidate, Pow2(31), p) ELSE None} :
       \E verdict \in {IF candidate = None THEN "not_generator"
                       ELSE IF test_32 = One /\ test_31 = Sub(p, One)
                            THEN "found" ELSE "not_valid"} :
          call' = [call EXCEPT
                     !.test = test, !.candidate = candidate,
                     !.test_32 = test_32, !.test_31 = test_31,
                     !.verdict = verdict,
                     !.stage = IF verdict = "found" \/ call.k = Len(generators)
                               THEN "done" ELSE "search",
                     !.k = call.k + 1]

NextOmega == \/ StartDerive
             \/ SearchStep
             \/ DeriveOmega
             \/ IsPrimitiveRoot
             \/ VerifyOmega
             \/ TryGenerator
             \/ Return

SpecOmega == Init /\ [][NextOmega]_vars

-----------------------------------------------------------------------------
(* Claims *)

\* the value before the conditional subtraction of montgomery_mult / fixed_redc
PreSub(a, b) == UpperLimbs(MaskedLimbs(Mul(a, b), p, inv_p))

\* C1: for all operands a, b < p, montgomery_mult(a, b) and fixed_redc(a * b)
\* return exactly (a * b * R^-1) mod p.
C1_MontgomeryMulExact ==
    call.fn \in {"montgomery_mult", "fixed_redc"}
        => IsMontProduct(call.ret, call.a, call.b)

\* C2: for all operands a, b < p, the value montgomery_mult returns after its
\* single conditional subtraction is strictly below p.
C2_ResultBelowModulus ==
    call.fn \in {"montgomery_mult", "fixed_redc"} => Lt(call.ret, p)

\* a call in which the conditional subtraction was taken
C2_Witness ==
    /\ call.fn = "montgomery_mult"
    /\ Ge(PreSub(call.a, call.b), p)
    /\ Lt(call.ret, p)

\* C3: for every canonical x < p, to_canonical(from_canonical(x)) = x, with
\* from_canonical(x) = montgomery_reduce(x * R2) and to_canonical the manual
\* reduction of the value placed in t[0], t[1].
C3_RoundTrip == call.fn = "round_trip" => call.ret = call.x

\* a round trip of a value that fills both limbs and differs from its
\* Montgomery form
C3_Witness ==
    /\ call.fn = "round_trip"
    /\ call.x = Spread
    /\ call.e # call.x
    /\ call.ret = call.x

\* C4: the (-1) * (-1) test case of each REDC script ends with
\* result_regular = 1.
C4_MinusOneSquared ==
    (call.fn = "test_case" /\ call.x = Sub(p, One) /\ call.y = Sub(p, One))
        => call.result_regular = One

\* C5: the 2 * 3 test case of correct_montgomery_ref.py and fixed_redc.py ends
\* with result_regular = 6.
C5_TwoTimesThree ==
    (/\ call.fn = "test_case"
     /\ call.script \in {"correct_montgomery_ref", "fixed_redc"}
     /\ call.x = <<2>> /\ call.y = <<3>>)
        => call.result_regular = <<6>>

\* C6: from_canonical(1), the REDC of 1 * R2, is the constant R = 2^128 mod p,
\* whichever REDC of the repository computes it.
C6_OneIsR ==
    (call.fn = "from_canonical" /\ call.x = One)
        => /\ call.by_reduce = r
           /\ call.by_fixed = r
           /\ call.by_textbook = r

C6_Witness ==
    /\ call.fn = "from_canonical"
    /\ call.x = One
    /\ call.by_reduce = Sub(Pow2(108), One)

\* C7: for every a < p, textbook_redc(a * R) = a, and the 1 * 1 test case of
\* textbook_redc.py converts back to canonical 1.
C7_MultiplicativeIdentity ==
    /\ (call.fn = "textbook_redc" /\ call.b = r) => call.ret = call.a
    /\ (call.fn = "test_case" /\ call.script = "textbook_redc"
            /\ call.x = One /\ call.y = One) => call.result_regular = One

\* a * R for an a that fills both limbs, where a carry reaches the top limb
C7_Witness ==
    /\ call.fn = "textbook_redc"
    /\ call.b = r
    /\ call.a = Sub(p, <<2>>)
    /\ call.ret = call.a

\* C8: for all a, b, c < p, (a * b) * c = a * (b * c) when every product is
\* computed by fixed_redc.
C8_Associative == call.fn = "associate" => call.left = call.right

NoneExactly ==
    /\ call.fn = "mod_inverse" => ((call.ret = None) <=> (GcdInt(call.a, call.m) # 1))
    /\ call.fn = "derive_inv" => ((call.ret = None) <=> ~IsOdd(call.pp))

\* what mod_inverse returns is below m, and it is the only such value whose
\* product with a is `one` modulo m
InverseOf(one) ==
    /\ (call.fn = "mod_inverse" /\ call.ret # None)
          => /\ Lt(call.ret, FromInt(call.m))
             /\ Mod(Mul(FromInt(call.a), call.ret), FromInt(call.m)) = one
             /\ \A k \in 0..(call.m - 1) :
                   FromInt((call.a * k) % call.m) = one => FromInt(k) = call.ret
    /\ (call.fn = "derive_inv" /\ call.ret # None)
          => /\ Lt(call.ret, Pow2(64))
             /\ Mod(Mul(NegMod64(call.pp), call.ret), Pow2(64)) = One

C11_InvDerived ==
    call.fn = "check_inv"
        => /\ call.check_inv = One
           /\ call.product = call.expected
           /\ Mod(Mul(call.pp, call.inv_p), Pow2(64)) = Sub(Pow2(64), One)
           /\ call.pp = p => call.p_low = One
           /\ call.p_low = One => (call.inv_p = INV /\ call.matches)

\* the derivation for p itself
C11_Witness ==
    /\ call.fn = "check_inv"
    /\ call.pp = p
    /\ call.inv_p = INV
    /\ call.check_inv = One

\* C12: the hard-coded limbs of R equal R = 2^128 mod p = 2^108 - 1 and the
\* hard-coded limbs of R^2 equal 2^256 mod p = (R * R) mod p, however a script
\* derives them.
C12_ConstantsMatch ==
    call.fn = "verify_constants"
        => /\ call.R = call.rust_r_value
           /\ call.R = Sub(Pow2(108), One)
           /\ call.R2 = call.rust_r2_value
           /\ call.R2 = Mod(Mul(call.R, call.R), p)
           /\ call.R2 = Mod(Pow2(256), p)

\* verify_r2.py: R^2 as (R * R) % p, against the quoted limbs
C12_Witness ==
    /\ call.fn = "verify_constants"
    /\ call.script = "verify_r2"
    /\ Mask64(call.R2) = rust_r2[1]
    /\ Mask64(Shr64(call.R2)) = rust_r2[2]

\* C13: the pinned omega = 164956748514267535023998284330560247862, whose
\* little-endian bytes are 36 0c da 62 fe ea 28 7c ce 03 89 3f f2 73 50 01, is
\* a primitive 2^32-th root of unity: omega^(2^32) mod p = 1 and
\* omega^(2^31) mod p = p - 1.
C13_PinnedOmega ==
    /\ call.fn = "test_cpp_omega"
          => /\ call.omega_2_32 = One
             /\ call.omega_2_31 = Sub(p, One)
             /\ call.cpp_omega_bytes = omega_32_bytes
    /\ call.fn = "check_omega"
          => /\ call.omega_2_32 = One
             /\ call.omega_2_31 = Sub(p, One)
             /\ call.omega_32_from_bytes = call.omega_32_from_comment

\* C14: for every size n > 1 of the table, omega_n = omega^(2^32 / n) has
\* multiplicative order exactly n: omega_n^n = 1 and omega_n^(n/2) # 1, hence
\* omega_n^(n / 2^k) # 1 for every k in 1..log2(n).
C14_RootOrder ==
    call.fn = "precompute_root"
        => /\ call.test = One
           /\ call.primitive
           /\ PowMod(call.omega_n, FromInt(call.n \div 2), p) # One
           /\ call.omega_n = PowMod(cpp_omega, Div(Pow2(32), FromInt(call.n)), p)

\* the largest size of the table
C14_Witness ==
    /\ call.fn = "precompute_root"
    /\ call.n = 65536
    /\ call.log_n = 16
    /\ call.test = One
    /\ call.primitive

\* C15: for every size n >= 2, the root of n / 2 is the square of the root of
\* n; equivalently, after k squarings of the base omega the running value is
\* omega^(2^k), the root of size 2^(32 - k).
C15_SquaringRelation ==
    /\ call.fn = "precompute_root"
          => Mod(Mul(call.omega_n, call.omega_n), p) = RootOfLog(call.log_n - 1)
    /\ call.fn = "squaring"
          => /\ call.current = PowMod(call.omega, Pow2(call.k), p)
             /\ call.omega = cpp_omega => call.current = RootOfLog(32 - call.k)

\* the last squaring of compute_python_large_powers.py
C15_Witness ==
    /\ call.fn = "squaring"
    /\ call.omega = cpp_omega
    /\ call.k = 15
    /\ call.current = RootOfLog(17)
    /\ call.current # One

\* n is a power of two
IsPowerOfTwo(n) == Len(n) > 0 /\ n = Pow2(BitLength(n) - 1)

\* C16: root_for(n) returns omega^(2^32 / n) for every power of two n with
\* 1 <= n <= 2^32 and returns no value exactly when n is not a power of two or
\* n > 2^32, root_for being the lookup generated by precompute_roots.py.
C16_RootFor ==
    call.fn = "root_for"
        => IF IsPowerOfTwo(call.n) /\ ~Lt(Pow2(32), call.n)
           THEN call.ret = RootOfLog(BitLength(call.n) - 1)
           ELSE call.ret = None

\* C17: the 32-pass bit loop computes the power for every base in [0, p) and
\* every exponent e with 0 <= e < 2^32: at the start of pass k the base is
\* base0^(2^k) mod p and the result is base0^(e mod 2^k) mod p, and after the
\* last pass the result is base0^e mod p.
C17_BinaryExponentiation ==
    call.fn = "pow_loop"
        => /\ call.bit_pos < ExpBits
                 => call.base = PowMod(call.base0, Pow2(call.bit_pos), p)
           /\ call.result
                 = PowMod(call.base0, Mod(call.exp, Pow2(call.bit_pos)), p)
           /\ call.bit_pos = ExpBits
                 => call.result = PowMod(call.base0, call.exp, p)

\* the loop of the script itself, omega^(2^31), which ends at -1
C17_Witness ==
    /\ call.fn = "pow_loop"
    /\ call.bit_pos = ExpBits
    /\ call.base0 = cpp_omega
    /\ call.exp = Pow2(31)
    /\ call.result = Sub(p, One)

\* C18: for all a, b in [0, p), add(a, b) on two 64-bit limbs with carry and
\* one conditional subtraction of p returns (a + b) mod p, which is below p,
\* also when a + b >= 2^128 and the limb-wise sum carries out of the top limb.
C18_Add ==
    call.fn = "add"
        => /\ call.ret = Mod(Add(call.a, call.b), p)
           /\ Lt(call.ret, p)
           /\ call.low.carry_out \in {<< >>, One}

\* (p - 1) + (p - 1) is 2^128 or more: the top limbs carry out
C18_Witness ==
    /\ call.fn = "add"
    /\ call.a = Sub(p, One)
    /\ call.b = Sub(p, One)
    /\ Ge(Add(call.a, call.b), Pow2(128))
    /\ call.ret = Sub(p, <<2>>)

PrimeFactors == {2, 3, 5, 11, 31, 41}

\* C20: is_primitive_root(g, p) returns True only if g has multiplicative
\* order exactly p - 1, that is only if g^((p-1)/q) # 1 for every prime q
\* dividing p - 1.
C20_PrimitiveRoot ==
    (call.fn = "is_primitive_root" /\ call.ret)
        => \A q \in PrimeFactors :
              PowMod(FromInt(call.g), Div(Sub(p, One), FromInt(q)), p) # One

\* C21: for all a, b in [0, p), adding the final carry of round 0 into t[2]
\* and of round 1 into t[3] does not overflow the 64-bit limb, so the four
\* masked limbs hold the exact value of (t + M*p) / 2^128.
C21_NoCarryLost ==
    call.fn = "fixed_redc"
        => /\ Lt(Add(call.passes[2].limbs[2], call.passes[2].carry), Pow2(64))
           /\ Lt(Add(call.passes[4].limbs[3], call.passes[4].carry), Pow2(64))
           /\ UpperLimbs(call.rounds[2]) = ReduceShifted(Mul(call.a, call.b), p, INV)

\* C22: each round zeros the limb it targets: after round 0, t[0] = 0, and
\* after round 1, t[0] = 0 and t[1] = 0, in fixed_redc and in textbook_redc.
C22_RoundsZeroLowLimbs ==
    /\ call.fn = "fixed_redc"
          => /\ call.rounds[1][0] = << >>
             /\ call.rounds[2][0] = << >>
             /\ call.rounds[2][1] = << >>
    /\ call.fn = "textbook_redc"
          => /\ call.rounds[1][0] = << >>
             /\ call.rounds[2][0] = << >>
             /\ call.rounds[2][1] = << >>

\* R * R, whose two low limbs are not zero before the rounds
C22_Witness ==
    /\ call.fn = "fixed_redc"
    /\ call.a = r
    /\ call.b = r
    /\ SplitLimbs(Mul(call.a, call.b), 4)[0] = One
    /\ SplitLimbs(Mul(call.a, call.b), 4)[1] # << >>
    /\ call.rounds[2][0] = << >>
    /\ call.rounds[2][1] = << >>

\* C27: in every pass of the inner loop of the REDC the running carry
\* (sum_val >> 64) + prod_hi is at most 2^64 - 1: it fits in one 64-bit limb.
C27_CarryFitsLimb ==
    call.fn = "fixed_redc"
        => \A k \in 1..4 : Lt(call.passes[k].carry, Pow2(64))

\* (p - 1)R * (p - 1)R: the carry of the second pass fills the top bits of a limb
C27_Witness ==
    /\ call.fn = "fixed_redc"
    /\ call.a = Mod(Mul(Sub(p, One), r), p)
    /\ call.b = call.a
    /\ Ge(call.passes[2].carry, Pow2(63))
    /\ Lt(call.passes[2].carry, Pow2(64))

\* C23: for every REDC input T < p * 2^128 the value before the subtraction,
\* (T + M*p) / 2^128, is below 2p, so the single conditional subtraction
\* leaves a value in [0, p) equal to (T * R^-1) mod p.
C23_OneSubtraction ==
    call.fn = "montgomery_reduce"
        => /\ Lt(call.T, Mul(p, Pow2(128)))
           /\ Lt(call.shifted, Add(p, p))
           /\ Lt(call.ret, p)
           /\ call.ret = (IF Ge(call.shifted, p) THEN Sub(call.shifted, p)
                                                ELSE call.shifted)
           /\ Mod(Mul(call.ret, Pow2(128)), p) = Mod(call.T, p)

\* the largest input: the value before the subtraction is p or more
C23_Witness ==
    /\ call.fn = "montgomery_reduce"
    /\ call.T = Sub(Mul(p, Pow2(128)), One)
    /\ Ge(call.shifted, p)
    /\ Lt(call.ret, p)

\* C24: for all two-limb operands a, b < 2^128 the four partial products and
\* the three-pass carry loop give limbs t[0..3], each below 2^64, with
\* t[0] + t[1]*2^64 + t[2]*2^128 + t[3]*2^192 = a * b.
C24_SchoolbookProduct ==
    call.fn = "trace_mult"
        => /\ \A k \in 0..3 : Lt(call.prod_limbs[k], Pow2(64))
           /\ Add(Add(call.prod_limbs[0], ShlDigits(call.prod_limbs[1], LimbDigits)),
                  Add(ShlDigits(call.prod_limbs[2], 2 * LimbDigits),
                      ShlDigits(call.prod_limbs[3], 3 * LimbDigits)))
                 = Mul(call.a, call.b)

\* (2^128 - 1)^2 = 2^256 - 2^129 + 1 fills the top limb
C24_Witness ==
    /\ call.fn = "trace_mult"
    /\ call.a = Sub(Pow2(128), One)
    /\ call.b = Sub(Pow2(128), One)
    /\ call.prod_limbs[0] = One
    /\ call.prod_limbs[3] = Sub(Pow2(64), One)

\* C25: to_canonical needs neither a conditional subtraction nor a fifth
\* limb: for every e in [0, p) the two rounds on t = [e_lo, e_hi, 0, 0] leave
\* in t[2], t[3] the exact (e + M*p) / 2^128, which is below p and equal to
\* (e * R^-1) mod p; the reduction of R is 1.
C25_ToCanonicalExact ==
    call.fn = "from_montgomery"
        => /\ call.ret = ReduceShifted(call.e, p, INV)
           /\ Lt(call.ret, p)
           /\ Mod(Mul(call.ret, r), p) = call.e
           /\ call.e = r => call.ret = One

\* the run of the script: from_montgomery(R) = 1
C25_Witness ==
    /\ call.fn = "from_montgomery"
    /\ call.e = Sub(Pow2(108), One)
    /\ call.ret = One

\* C26: montgomery_mult of reference_montgomery.py, called as the script
\* calls it, returns (a * b * R^-1) mod p: converted back to canonical form
\* the result is 1 for (-1) * (-1) and omega^2 mod p for omega * omega.
C26_ReferenceMult ==
    call.fn = "reference_test"
        => /\ IsMontProduct(call.result, call.x_montgomery, call.x_montgomery)
           /\ call.result_regular = Mod(Mul(call.x, call.x), p)

\* C28: the REDC variants are equivalent: for every t = a * b with a, b in
\* [0, p), fixed_redc(t, p, inv), textbook_redc(t, p, inv) and
\* montgomery_reduce(t, p, inv) return the same value.
C28_VariantsAgree ==
    call.fn \in {"fixed_redc", "textbook_redc"}
        => call.ret = montgomery_reduce(Mul(call.a, call.b), p, INV)

\* C30: whenever the exact REDC value before the subtraction is 2^128 or
\* more for a, b in [0, p) (a carry of 1 leaves t[3]), the 128-bit value left
\* in t[2], t[3] plus R = 2^128 - p = 2^108 - 1 is below p and equal to
\* (a * b * R^-1) mod p.
C30_AddROnOverflow ==
    (/\ call.fn = "textbook_redc"
     /\ Ge(ReduceShifted(Mul(call.a, call.b), p, INV), Pow2(128)))
        => /\ ReduceShifted(Mul(call.a, call.b), p, INV)
                 = Add(Pow2(128), TextbookResult(call.rounds[2]))
           /\ Lt(Add(TextbookResult(call.rounds[2]), r), p)
           /\ IsMontProduct(Add(TextbookResult(call.rounds[2]), r), call.a, call.b)
           /\ r = Sub(Pow2(128), p)

\* (-1) * (-1) in Montgomery form: the exact value is 2^128, t[2] = t[3] = 0
C30_Witness ==
    /\ call.fn = "textbook_redc"
    /\ call.a = Mod(Mul(Sub(p, One), r), p)
    /\ call.b = call.a
    /\ ReduceShifted(Mul(call.a, call.b), p, INV) = Pow2(128)
    /\ TextbookResult(call.rounds[2]) = << >>

====
